---- MODULE Spec2Model ----
(***************************************************************************)
(* Model of the retry controller (DataAnalysisAgent.analyze) and of the    *)
(* history compactor (truncate_text) of polars-analyst-agent.              *)
(*                                                                         *)
(* Texts are sequences of one-character strings, so that substring tests,  *)
(* case folding, slicing and concatenation are computed as Python does.    *)
(***************************************************************************)
EXTENDS Integers, Sequences, FiniteSets, TLC

(* ------------------------------------------------------------------ *)
(* Bounds of the model                                                  *)
(* ------------------------------------------------------------------ *)
MaxCalls == 2
MaxRetriesBound == 3
MaxTextLen == 5
MaxLimit == 5
MaxDelta == 2
MaxLines == 2

(* ------------------------------------------------------------------ *)
(* Program constants                                                    *)
(* ------------------------------------------------------------------ *)
DefaultMaxRetries == 3
DefaultRetryDelay == 4
InitMaxSteps == 12
CliMaxSteps == 20

(* ------------------------------------------------------------------ *)
(* Text primitives (Python str operations)                              *)
(* ------------------------------------------------------------------ *)
UpperLetters ==
  <<"A","B","C","D","E","F","G","H","I","J","K","L","M",
    "N","O","P","Q","R","S","T","U","V","W","X","Y","Z">>

LowerLetters ==
  <<"a","b","c","d","e","f","g","h","i","j","k","l","m",
    "n","o","p","q","r","s","t","u","v","w","x","y","z">>

\* str.lower() on one character
LowerChar(c) ==
  IF \E i \in 1..26 : UpperLetters[i] = c
    THEN LowerLetters[CHOOSE i \in 1..26 : UpperLetters[i] = c]
    ELSE c

\* str.lower()
Lower(s) == [i \in 1..Len(s) |-> LowerChar(s[i])]

\* pat in s
Contains(s, pat) ==
  \E i \in 1..(Len(s) - Len(pat) + 1) : SubSeq(s, i, i + Len(pat) - 1) = pat

\* s.endswith(suf)
EndsWith(s, suf) ==
  /\ Len(suf) <= Len(s)
  /\ SubSeq(s, Len(s) - Len(suf) + 1, Len(s)) = suf

\* s[:n], for any integer n (a negative n counts from the end)
SliceTo(s, n) ==
  IF n >= 0
    THEN SubSeq(s, 1, IF n < Len(s) THEN n ELSE Len(s))
    ELSE SubSeq(s, 1, IF Len(s) + n > 0 THEN Len(s) + n ELSE 0)

(* ------------------------------------------------------------------ *)
(* Texts of the controller                                              *)
(* ------------------------------------------------------------------ *)
Sig503 == <<"5","0","3">>
SigUnavailable == <<"U","N","A","V","A","I","L","A","B","L","E">>
SigOverloaded == <<"o","v","e","r","l","o","a","d","e","d">>

AnalysisFailedPrefix ==
  <<"A","n","a","l","y","s","i","s"," ","f","a","i","l","e","d",":"," ">>

\* Error texts a delegate run can raise
RunErrors ==
  { <<"5","0","3">>,
    <<"e","r","r"," ","5","0","3","!">>,
    <<"U","N","A","V","A","I","L","A","B","L","E">>,
    <<"o","v","e","r","l","o","a","d","e","d">>,
    <<"O","v","e","r","l","o","a","d","e","d">>,
    <<"u","n","a","v","a","i","l","a","b","l","e">>,
    <<"5","0"," ","3">>,
    <<"t","i","m","e","o","u","t">> }

\* Error texts the display of a result can raise (rich markup errors)
FormatErrors ==
  { <<"t","a","g"," ","[","/","5","0","3","]">>,
    <<"t","a","g"," ","[","/","b","]">> }

\* time.sleep() with a negative argument
SleepError == <<"V","a","l","u","e","E","r","r","o","r">>

\* Error raised by the CodeAgent constructor
RebuildErrors == { <<"i","n","i","t"," ","e","r","r">> }

\* Final answers a delegate run can return
RunResults == { <<"o","k">>, <<"[","/","b","]">> }

NoText == <<>>

\* suffix: str = "... [truncated]"
DefaultSuffix ==
  <<".",".","."," ","[","t","r","u","n","c","a","t","e","d","]">>

(* ------------------------------------------------------------------ *)
(* Inputs of analyze()                                                  *)
(* ------------------------------------------------------------------ *)
ExistingFiles == {"data.csv"}
Paths == ExistingFiles \cup {"missing.csv"}
Tasks == {"Perform comprehensive exploratory data analysis"}
MaxRetriesValues == (-1)..MaxRetriesBound
RetryDelays == {-1, 1, DefaultRetryDelay}

\* Variant of PathExists that finds every path
PathExistsAnyPath(p) == TRUE

\* os.path.exists(csv_path)
PathExists(p) == p \in ExistingFiles

\* DATA_ANALYSIS_TASK_TEMPLATE.format(csv_path=..., task_description=...)
FullTask(csv_path, task) == <<"DATA_ANALYSIS_TASK_TEMPLATE", csv_path, task>>

(* ------------------------------------------------------------------ *)
(* State                                                                *)
(* ------------------------------------------------------------------ *)
VARIABLES
  self_max_steps,      \* self.max_steps
  self_verbosity,      \* self.verbosity_level
  agent,               \* self.agent: the delegate the controller holds
  nextId,              \* identity of the next CodeAgent object constructed
  calls,               \* number of analyze() calls made so far
  pc,                  \* position of the controller
  max_retries,         \* argument of the current analyze() call
  retry_delay,         \* argument of the current analyze() call
  full_task,           \* local of analyze()
  attempt,             \* loop variable of analyze()
  result,              \* local of analyze(): what agent.run returned
  caught,              \* e of "except Exception as e" (unbound outside the block)
  is_overload,         \* local of the except block
  wait_time,           \* local of the except block
  ret,                 \* how the current analyze() call ended
  runLog,              \* the agent.run invocations of the current call
  waits,               \* the time.sleep calls completed in the current call
  rebuilds,            \* CodeAgent objects constructed in the current call
  usedEarlier,         \* identities of the delegates run by earlier calls
  tr_text,             \* truncate_text: argument text
  tr_max_chars,        \* truncate_text: argument max_chars
  tr_suffix,           \* truncate_text: argument suffix
  tr_out,              \* truncate_text: returned value
  tr_pc,               \* truncate_text: "called" before, "returned" after
  step,                \* compact_memory_callback: the ActionStep argument
  step0,               \* the step as it was when the callback was called
  cb_kwargs,           \* keyword arguments passed besides step
  cb_pc,               \* compact_memory_callback: "called", "returned", "raised"
  argv,                \* main(): the parsed command line
  stdin,               \* the lines the user types at the interactive prompt
  cli_pc,              \* main(): position
  cli_calls,           \* analyze() calls made by main() or by the session
  entered,             \* analyze_interactive() has been called
  consumed,            \* lines read by input() so far
  hints,               \* "Unknown command" hints printed so far
  file,                \* the file at the path the tools are called on
  tool_done,           \* the tools that have been called
  loader_out,          \* what PolarsDataLoaderTool.forward ended with
  inspector_out,       \* what DataInspectorTool.forward ended with
  profiler_out,        \* what DataProfilerTool.forward ended with
  validator_out,       \* what DataValidatorTool.forward ended with
  api_key,             \* __init__: the api_key argument
  environ,             \* os.environ: the value of GEMINI_API_KEY
  dotenv,              \* the value the .env file gives GEMINI_API_KEY
  ctor_pc,             \* __init__: position
  created              \* the attributes __init__ has assigned so far

vars ==
  << self_max_steps, self_verbosity, agent, nextId, calls, pc, max_retries,
     retry_delay, full_task, attempt, result, caught, is_overload,
     wait_time, ret, runLog, waits, rebuilds, usedEarlier,
     tr_text, tr_max_chars, tr_suffix, tr_out, tr_pc,
     step, step0, cb_kwargs, cb_pc,
     argv, stdin, cli_pc, cli_calls, entered, consumed, hints,
     file, tool_done, loader_out, inspector_out, profiler_out,
     validator_out,
     api_key, environ, dotenv, ctor_pc, created >>

memVars == << tr_text, tr_max_chars, tr_suffix, tr_out, tr_pc >>

cbVars == << step, step0, cb_kwargs, cb_pc >>

cliVars == << argv, stdin, cli_pc, cli_calls, entered, consumed, hints >>

toolVars ==
  << file, tool_done, loader_out, inspector_out, profiler_out, validator_out >>

ctorVars == << api_key, environ, dotenv, ctor_pc, created >>

nonCtlVars == << memVars, cbVars, cliVars, toolVars, ctorVars >>

ctlVars ==
  << self_max_steps, self_verbosity, agent, nextId, calls, pc, max_retries,
     retry_delay, full_task, attempt, result, caught, is_overload,
     wait_time, ret, runLog, waits, rebuilds, usedEarlier >>

Terminal == pc \in {"Succeeded", "Failed", "Raised", "NotFound", "NoValue"}

NoReturn == [kind |-> "pending", value |-> NoText]

(* ------------------------------------------------------------------ *)
(* The delegate                                                         *)
(* ------------------------------------------------------------------ *)
\* prompt_templates = <agent>.prompt_templates.copy();
\* prompt_templates['system_prompt'] = AGENT_SYSTEM_PROMPT
PromptTemplates(base) == [base EXCEPT !.system_prompt = "AGENT_SYSTEM_PROMPT"]

\* temp_agent.prompt_templates: the framework's default templates
DefaultTemplates == [system_prompt |-> "default", planning |-> "default"]

\* CodeAgent(tools=..., model=..., prompt_templates=..., max_steps=...,
\*           verbosity_level=..., additional_authorized_imports=...)
CodeAgent(id, templates, max_steps, verbosity_level) ==
  [ id |-> id,
    tools |-> "self.tools",
    model |-> "self.model",
    prompt_templates |-> templates,
    max_steps |-> max_steps,
    verbosity_level |-> verbosity_level,
    imports |-> "AUTHORIZED_IMPORTS",
    step_callbacks |-> {} ]

\* The configuration of a delegate: everything but its identity
Config(a) ==
  [ tools |-> a.tools, model |-> a.model,
    prompt_templates |-> a.prompt_templates, max_steps |-> a.max_steps,
    verbosity_level |-> a.verbosity_level, imports |-> a.imports,
    step_callbacks |-> a.step_callbacks ]

(* ------------------------------------------------------------------ *)
(* Profiling tools: the file and the CSV reader (polars.read_csv)       *)
(* ------------------------------------------------------------------ *)
\* A line of a file is a sequence of tokens: separator characters and the
\* texts written between them.
IntTok(n) == [k |-> "int", n |-> n, s |-> ""]
\* the number n written with a decimal point
FloatTok(n) == [k |-> "float", n |-> n, s |-> ""]
StrTok(s) == [k |-> "str", n |-> 0, s |-> s]
\* a text whose bytes are not valid UTF-8 (valid in latin-1)
BytesTok(s) == [k |-> "bytes", n |-> 0, s |-> s]
SepTok(c) == [k |-> "sep", n |-> 0, s |-> c]
\* no text between two separators
NullTok == [k |-> "null", n |-> 0, s |-> ""]
\* an empty field, as the reader sees it
NullField == <<>>

\* the fields of a line for one separator character
RECURSIVE Split(_, _)
Split(line, sep) ==
  IF \A i \in 1..Len(line) : line[i] # SepTok(sep)
    THEN << line >>
    ELSE LET i == CHOOSE i \in 1..Len(line) :
                    /\ line[i] = SepTok(sep)
                    /\ \A j \in 1..(i - 1) : line[j] # SepTok(sep)
         IN << SubSeq(line, 1, i - 1) >>
              \o Split(SubSeq(line, i + 1, Len(line)), sep)

HasBytes(field) == \E j \in 1..Len(field) : field[j].k = "bytes"
FileHasBytes(f) == \E i \in 1..Len(f.lines) : HasBytes(f.lines[i])

\* str(dtype) of the inferred column types
Int64 == << "I", "n", "t", "6", "4" >>
Float64 == << "F", "l", "o", "a", "t", "6", "4" >>
String == << "S", "t", "r", "i", "n", "g" >>

\* type inference over the fields of one column
InferDtype(raw) ==
  LET nonnull == { r \in 1..Len(raw) : raw[r] # NullField }
  IN IF nonnull = {} THEN String
     ELSE IF \A r \in nonnull : Len(raw[r]) = 1 /\ raw[r][1].k = "int"
       THEN Int64
     ELSE IF \A r \in nonnull :
               Len(raw[r]) = 1 /\ raw[r][1].k \in {"int", "float"}
       THEN Float64
     ELSE String

\* a cell of a column
\* the null cell; a number cell holds num, a text cell holds txt
NullCell == [null |-> TRUE, num |-> 0, txt |-> <<>>]

ToCell(field, dtype) ==
  IF field = NullField THEN NullCell
  ELSE IF dtype = String THEN [null |-> FALSE, num |-> 0, txt |-> field]
  ELSE [null |-> FALSE, num |-> field[1].n, txt |-> <<>>]

\* the table read from the lines: the first line is the header, a row
\* shorter than the header is padded with nulls; with lossy, a field that
\* is not valid UTF-8 is read as null
ParseLines(lines, separator, lossy) ==
  LET split == [r \in 1..Len(lines) |-> Split(lines[r], separator)]
      header == split[1]
      n_rows == Len(lines) - 1
      field(r, c) ==
        IF c > Len(split[r + 1]) THEN NullField
        ELSE IF lossy /\ HasBytes(split[r + 1][c]) THEN NullField
        ELSE split[r + 1][c]
      column(c) ==
        LET raw == [r \in 1..n_rows |-> field(r, c)]
            dtype == InferDtype(raw)
        IN [name |-> header[c], dtype |-> dtype,
            values |-> [r \in 1..n_rows |-> ToCell(raw[r], dtype)]]
  IN [c \in 1..Len(header) |-> column(c)]

Raised(e) == [raised |-> TRUE, error |-> e, df |-> <<>>]
Frame(df) == [raised |-> FALSE, error |-> "", df |-> df]

\* pl.read_csv(path, encoding, separator, ignore_errors): the outcomes the
\* library can produce for a file whose rows have at most as many fields
\* as its header. "utf8" is the library's own decoder, any other encoding
\* is decoded by Python before parsing. With ignore_errors a field that
\* is not valid UTF-8 is dropped to null or still fails the read,
\* depending on where the library meets it.
ReadCsv(f, encoding, separator, ignore_errors) ==
  IF ~f.exists THEN { Raised("FileNotFoundError") }
  ELSE IF encoding = "utf-8" /\ FileHasBytes(f)
    THEN { Raised("UnicodeDecodeError") }
  ELSE IF f.lines = <<>> THEN { Raised("NoDataError") }
  ELSE IF encoding = "utf8" /\ FileHasBytes(f)
    THEN IF ignore_errors
           THEN { Raised("ComputeError"),
                  Frame(ParseLines(f.lines, separator, TRUE)) }
           ELSE { Raised("ComputeError") }
  ELSE { Frame(ParseLines(f.lines, separator, FALSE)) }

\* DataFrame and Series operations
Shape(df) ==
  [n_rows |-> IF Len(df) = 0 THEN 0 ELSE Len(df[1].values), n_cols |-> Len(df)]
NullCount(col) ==
  Cardinality({ r \in 1..Len(col.values) : col.values[r].null })
\* n_unique counts null as one value
NUnique(col) == Cardinality({ col.values[r] : r \in 1..Len(col.values) })
DropNulls(col) ==
  LET keep(c) == ~c.null IN SelectSeq(col.values, keep)

(* ------------------------------------------------------------------ *)
(* Profiling tools: the files                                           *)
(* ------------------------------------------------------------------ *)
\* the line a row of tokens is written as
RECURSIVE WriteLine(_, _)
WriteLine(row, sep) ==
  IF row = <<>> THEN <<>>
  ELSE (IF Head(row) = NullTok THEN <<>> ELSE << Head(row) >>)
         \o (IF Len(row) = 1 THEN <<>>
             ELSE << SepTok(sep) >> \o WriteLine(Tail(row), sep))

\* a file written from a header and rows of fields with one separator
WriteCsv(header, rows, sep) ==
  [exists |-> TRUE, sep |-> sep,
   lines |-> << WriteLine([c \in 1..Len(header) |-> StrTok(header[c])], sep) >>
             \o [r \in 1..Len(rows) |-> WriteLine(rows[r], sep)]]

MissingFile == [exists |-> FALSE, sep |-> ",", lines |-> <<>>]
EmptyFile == [exists |-> TRUE, sep |-> ",", lines |-> <<>>]

\* the text v<i>
Label(i) == [k |-> "str", n |-> i, s |-> "v"]

\* three columns of mixed types, one empty field
SmallRows ==
  << << IntTok(1), StrTok("a"), FloatTok(3) >>,
     << IntTok(2), NullTok, FloatTok(5) >> >>

\* a name that is not valid UTF-8 in the first data row
Latin1File ==
  WriteCsv(<< "name", "n" >>,
           << << BytesTok("cafe"), IntTok(1) >>,
              << StrTok("tea"), IntTok(2) >> >>,
           ",")

CategoricalThreshold == 20

\* a text column with d distinct texts over d + 2 rows, the last field
\* empty when withNull
CardFile(d, withNull) ==
  WriteCsv(<< "id", "tag" >>,
           [r \in 1..(d + 2) |->
              << IntTok(r),
                 IF withNull /\ r = d + 2 THEN NullTok
                 ELSE Label(((r - 1) % d) + 1) >>],
           ",")

\* one numeric column with an empty field; 2, 3, 4 are its middle values
OutlierFile(low, top) ==
  WriteCsv(<< "id", "v" >>,
           << << StrTok("r1"), IntTok(3) >>, << StrTok("r2"), IntTok(top) >>,
              << StrTok("r3"), IntTok(2) >>, << StrTok("r4"), NullTok >>,
              << StrTok("r5"), IntTok(low) >>, << StrTok("r6"), IntTok(4) >> >>,
           ",")

\* seven numeric columns without empty fields, the sixth written with
\* decimal points
CorrFile ==
  LET numbers == << << 0, 0, 4, 2, 2, 1, 0 >>,
                    << 1, 1, 3, 2, 0, 1, 0 >>,
                    << 2, 2, 2, 2, 3, 1, 0 >>,
                    << 3, 4, 1, 2, 1, 1, 0 >>,
                    << 4, 3, 0, 2, 2, 9, 5 >> >>
  IN WriteCsv(<< "id", "a", "b", "c", "d", "e", "f", "g" >>,
              [r \in 1..5 |->
                 << Label(r) >>
                   \o [c \in 1..7 |-> IF c = 6 THEN FloatTok(numbers[r][c])
                                      ELSE IntTok(numbers[r][c])]],
              ",")

Files ==
  { MissingFile, EmptyFile, Latin1File, CorrFile }
    \cup { WriteCsv(<< "x", "y", "z" >>, rows, sep) :
             rows \in { <<>>, SmallRows }, sep \in { ",", ";" } }
    \cup { CardFile(d, n) :
             d \in (CategoricalThreshold - MaxDelta)..(CategoricalThreshold + MaxDelta),
             n \in BOOLEAN }
    \cup { OutlierFile(low, top) :
             low \in (-1 - MaxDelta)..(-1 + MaxDelta),
             top \in (7 - MaxDelta)..(7 + MaxDelta) }

(* ------------------------------------------------------------------ *)
(* Profiling tools: the four forward() methods                          *)
(* ------------------------------------------------------------------ *)
\* what a call of forward() ends with: a returned text, given by its
\* leading literal and the values formatted into it, or an exception
Returns(head, body) == [raised |-> FALSE, head |-> head, body |-> body]
Raises(e) == [raised |-> TRUE, head |-> <<>>, body |-> [error |-> e]]
NotCalled == Returns(<<>>, [called |-> FALSE])

ErrorMarker == << "E", "R", "R", "O", "R" >>
LoaderHead == << "C", "S", "V", " ", "l", "o", "a", "d", "e", "d", ":", " " >>
LoaderNotFound == << "E", "R", "R", "O", "R", ":", " ", "F", "i", "l", "e", " ", "n", "o", "t", " ", "f", "o", "u", "n", "d", " ", "a", "t", " ", "p", "a", "t", "h", ":", " " >>
LoaderCouldNotLoad == << "E", "R", "R", "O", "R", ":", " ", "C", "o", "u", "l", "d", " ", "n", "o", "t", " ", "l", "o", "a", "d", " ", "C", "S", "V" >>
LoaderUnexpected == << "E", "R", "R", "O", "R", ":", " ", "U", "n", "e", "x", "p", "e", "c", "t", "e", "d", " ", "e", "r", "r", "o", "r", " ", "l", "o", "a", "d", "i", "n", "g", " ", "C", "S", "V", ":", " " >>
InspectorHead == << "D", "a", "t", "a", " ", "s", "h", "a", "p", "e", ":", " " >>
InspectorFailed == << "E", "R", "R", "O", "R", ":", " ", "F", "a", "i", "l", "e", "d", " ", "t", "o", " ", "i", "n", "s", "p", "e", "c", "t", " ", "d", "a", "t", "a", ":", " " >>
ProfilerHead == << "D", "A", "T", "A", " ", "P", "R", "O", "F", "I", "L", "I", "N", "G", " ", "R", "E", "P", "O", "R", "T" >>
ProfilerFailed == << "E", "R", "R", "O", "R", ":", " ", "F", "a", "i", "l", "e", "d", " ", "t", "o", " ", "p", "r", "o", "f", "i", "l", "e", " ", "d", "a", "t", "a", ":", " " >>
ValidatorHead == << "D", "A", "T", "A", " ", "Q", "U", "A", "L", "I", "T", "Y", " ", "R", "E", "P", "O", "R", "T" >>
ValidatorFailed == << "E", "R", "R", "O", "R", ":", " ", "V", "a", "l", "i", "d", "a", "t", "i", "o", "n", " ", "f", "a", "i", "l", "e", "d", ":", " " >>

StartsWith(s, pre) == Len(s) >= Len(pre) /\ SubSeq(s, 1, Len(pre)) = pre

\* Variant of Catch that lets the exception through
CatchNothing(res, head) == res

\* try: ... except Exception as e: return f"{head}{str(e)}"
Catch(res, head) == IF res.raised THEN Returns(head, res.body) ELSE res

\* the fallback combinations, encodings outer, separators inner
Encodings == << "utf-8", "latin-1", "iso-8859-1" >>
Separators == << ",", ";", "\t", "|" >>

\* Variant of Combinations with separators outer, encodings inner
CombinationsSeparatorsOuter ==
  [i \in 1..(Len(Encodings) * Len(Separators)) |->
     [encoding |-> Encodings[((i - 1) % Len(Encodings)) + 1],
      separator |-> Separators[((i - 1) \div Len(Encodings)) + 1]]]

Combinations ==
  [i \in 1..(Len(Encodings) * Len(Separators)) |->
     [encoding |-> Encodings[((i - 1) \div Len(Separators)) + 1],
      separator |-> Separators[((i - 1) % Len(Separators)) + 1]]]

\* the fallback loops from combination i on: the first read that does not
\* raise ends them
RECURSIVE TryCombinations(_, _)
TryCombinations(f, i) ==
  IF i > Len(Combinations) THEN { [found |-> FALSE, df |-> <<>>, tried |-> i - 1] }
  ELSE UNION { IF o.raised THEN TryCombinations(f, i + 1)
               ELSE { [found |-> TRUE, df |-> o.df, tried |-> i] } :
               o \in ReadCsv(f, Combinations[i].encoding,
                             Combinations[i].separator, TRUE) }

LoaderReport(df, tried) ==
  Returns(LoaderHead,
    [n_rows |-> Shape(df).n_rows, n_cols |-> Shape(df).n_cols,
     columns |-> [c \in 1..Len(df) |-> df[c].name],
     dtypes |-> [c \in 1..Len(df) |-> df[c].dtype],
     nulls |-> [c \in 1..Len(df) |-> NullCount(df[c])],
     tried |-> tried])

\* PolarsDataLoaderTool.forward: the results it can end with
LoaderForward(f) ==
  IF ~f.exists THEN { Returns(LoaderNotFound, [error |-> "not found"]) }
  ELSE UNION {
    IF ~o.raised THEN { Catch(LoaderReport(o.df, 0), LoaderUnexpected) }
    ELSE { IF t.found
             THEN Catch(LoaderReport(t.df, t.tried), LoaderUnexpected)
             ELSE Returns(LoaderCouldNotLoad, [error |-> o.error]) :
           t \in TryCombinations(f, 1) } :
    o \in ReadCsv(f, "utf8", ",", FALSE) }

\* 'Int' in dtype or 'Float' in dtype
IsNumericDtype(dtype) ==
  Contains(dtype, << "I", "n", "t" >>)
    \/ Contains(dtype, << "F", "l", "o", "a", "t" >>)

\* Variant of ColType whose threshold includes 20
ColTypeInclusive(col) ==
  IF IsNumericDtype(col.dtype) THEN "NUMERIC"
  ELSE IF NUnique(col) <= CategoricalThreshold THEN "CATEGORICAL"
  ELSE "TEXT"

\* the label of a column
ColType(col) ==
  IF IsNumericDtype(col.dtype) THEN "NUMERIC"
  ELSE IF NUnique(col) < CategoricalThreshold THEN "CATEGORICAL"
  ELSE "TEXT"

ColumnLine(col) ==
  [name |-> col.name, dtype |-> col.dtype, col_type |-> ColType(col),
   nulls |-> NullCount(col), unique |-> NUnique(col)]

InspectorReport(df) ==
  Returns(InspectorHead,
    [n_rows |-> Shape(df).n_rows, n_cols |-> Shape(df).n_cols,
     columns |-> [c \in 1..Len(df) |-> ColumnLine(df[c])]])

\* DataInspectorTool.forward
InspectorForward(f) ==
  { Catch(IF o.raised THEN Raises(o.error) ELSE InspectorReport(o.df),
          InspectorFailed) :
    o \in ReadCsv(f, "utf8", ",", TRUE) }

ValidatorReport(df) ==
  Returns(ValidatorHead,
    [null_cols |->
       LET hasNulls(col) == NullCount(col) > 0
           withNulls == SelectSeq(df, hasNulls)
       IN [c \in 1..Len(withNulls) |->
             [name |-> withNulls[c].name, count |-> NullCount(withNulls[c]),
              fill |-> IF IsNumericDtype(withNulls[c].dtype)
                         THEN "0" ELSE "Unknown"]],
     columns |-> [c \in 1..Len(df) |-> ColumnLine(df[c])]])

\* DataValidatorTool.forward
ValidatorForward(f) ==
  { Catch(IF o.raised THEN Raises(o.error) ELSE ValidatorReport(o.df),
          ValidatorFailed) :
    o \in ReadCsv(f, "utf8", ",", TRUE) }

\* s[:n]
Take(s, n) == SubSeq(s, 1, IF Len(s) < n THEN Len(s) ELSE n)
\* s[a:b]
Slice(s, a, b) == SubSeq(s, a + 1, IF Len(s) < b THEN Len(s) ELSE b)

\* 'int' in dtype.lower() or 'float' in dtype.lower()
ProfilerIsNumeric(dtype) ==
  Contains(Lower(dtype), << "i", "n", "t" >>)
    \/ Contains(Lower(dtype), << "f", "l", "o", "a", "t" >>)

\* n_unique < min(50, n_rows * 0.05)
LowCardinality(col) ==
  NUnique(col) < 50 /\ 20 * NUnique(col) < Len(col.values)

RECURSIVE SortAsc(_)
SortAsc(s) ==
  IF s = <<>> THEN <<>>
  ELSE LET rest == SortAsc(Tail(s))
           k == Cardinality({ i \in 1..Len(rest) : rest[i] < Head(s) })
       IN SubSeq(rest, 1, k) \o << Head(s) >> \o SubSeq(rest, k + 1, Len(rest))

Nums(cells) == [i \in 1..Len(cells) |-> cells[i].num]

\* Series.quantile(q4 / 4), interpolation "nearest", of a non-empty series
Quantile(nums, q4) == SortAsc(nums)[(((Len(nums) - 1) * q4 + 2) \div 4) + 1]

\* Variant of OutlierCount that keeps the nulls as zeros
OutlierCountKeepNulls(col) ==
  LET values == Nums(col.values)
      q1 == Quantile(values, 1)
      q3 == Quantile(values, 3)
      iqr == q3 - q1
  IN Cardinality({ i \in 1..Len(values) :
                     \/ 2 * values[i] < 2 * q1 - 3 * iqr
                     \/ 2 * values[i] > 2 * q3 + 3 * iqr })

\* ((values < q1 - 1.5 * iqr) | (values > q3 + 1.5 * iqr)).sum()
\* over values = df[col].drop_nulls()
OutlierCount(col) ==
  LET values == Nums(DropNulls(col))
      q1 == Quantile(values, 1)
      q3 == Quantile(values, 3)
      iqr == q3 - q1
  IN Cardinality({ i \in 1..Len(values) :
                     \/ 2 * values[i] < 2 * q1 - 3 * iqr
                     \/ 2 * values[i] > 2 * q3 + 3 * iqr })

RECURSIVE Sum(_)
Sum(s) == IF s = <<>> THEN 0 ELSE Head(s) + Sum(Tail(s))

\* pl.corr(col1, col2) of two columns without nulls: the Pearson
\* correlation is cov / sqrt(vx * vy), kept as its three integers
\* (each scaled by the square of the row count)
Corr(col1, col2) ==
  LET x == Nums(col1.values)
      y == Nums(col2.values)
      n == Len(x)
  IN [col1 |-> col1.name, col2 |-> col2.name,
      cov |-> n * Sum([i \in 1..n |-> x[i] * y[i]]) - Sum(x) * Sum(y),
      vx |-> n * Sum([i \in 1..n |-> x[i] * x[i]]) - Sum(x) * Sum(x),
      vy |-> n * Sum([i \in 1..n |-> y[i] * y[i]]) - Sum(y) * Sum(y)]

\* abs(corr) > 0.5; a correlation that is not a number compares False
Strong(r) == r.vx * r.vy > 0 /\ 4 * r.cov * r.cov > r.vx * r.vy

\* abs(a) > abs(b), for two correlations that are numbers
AbsGreater(a, b) == a.cov * a.cov * (b.vx * b.vy) > b.cov * b.cov * (a.vx * a.vy)

\* Variant of SortKeyGreater that compares the signed correlations
SortKeyGreaterSigned(a, b) ==
  IF a.cov >= 0 /\ b.cov >= 0 THEN AbsGreater(a, b)
  ELSE IF a.cov < 0 /\ b.cov < 0 THEN AbsGreater(b, a)
  ELSE a.cov >= 0

\* key=lambda x: abs(x[2]), reverse=True
SortKeyGreater(a, b) == AbsGreater(a, b)

\* sorted(correlations, key=..., reverse=True): a stable sort
RECURSIVE SortCorrelations(_)
SortCorrelations(s) ==
  IF s = <<>> THEN <<>>
  ELSE LET rest == SortCorrelations(Tail(s))
           k == Cardinality({ i \in 1..Len(rest) : SortKeyGreater(rest[i], Head(s)) })
       IN SubSeq(rest, 1, k) \o << Head(s) >> \o SubSeq(rest, k + 1, Len(rest))

\* the pairs examined: col1 among numeric_cols[:5], col2 among
\* numeric_cols[i+1:6], in the order of the two loops
RECURSIVE ExaminedFrom(_, _)
ExaminedFrom(numeric_cols, i) ==
  IF i >= Len(Take(numeric_cols, 5)) THEN <<>>
  ELSE LET others == Slice(numeric_cols, i + 1, 6)
       IN [j \in 1..Len(others) |-> << numeric_cols[i + 1], others[j] >>]
            \o ExaminedFrom(numeric_cols, i + 1)

ProfilerReport(df) ==
  LET isNumeric(col) == ProfilerIsNumeric(col.dtype)
      isCategorical(col) == ~ProfilerIsNumeric(col.dtype) /\ LowCardinality(col)
      numeric_cols == SelectSeq(df, isNumeric)
      categorical_cols == SelectSeq(df, isCategorical)
      nonEmpty(col) == Len(DropNulls(col)) > 0
      analysed == SelectSeq(Take(numeric_cols, 5), nonEmpty)
      pairs == ExaminedFrom(numeric_cols, 0)
      corrs == [p \in 1..Len(pairs) |-> Corr(pairs[p][1], pairs[p][2])]
  IN Returns(ProfilerHead,
       [numeric |-> [c \in 1..Len(numeric_cols) |-> numeric_cols[c].name],
        categorical |-> [c \in 1..Len(categorical_cols) |-> categorical_cols[c].name],
        outliers |-> [c \in 1..Len(analysed) |->
                        [name |-> analysed[c].name,
                         outliers |-> OutlierCount(analysed[c]),
                         of |-> Len(DropNulls(analysed[c]))]],
        correlations |-> IF Len(numeric_cols) >= 2
                           THEN SortCorrelations(SelectSeq(corrs, Strong))
                           ELSE <<>>])

\* DataProfilerTool.forward
ProfilerForward(f) ==
  { Catch(IF o.raised THEN Raises(o.error) ELSE ProfilerReport(o.df),
          ProfilerFailed) :
    o \in ReadCsv(f, "utf8", ",", TRUE) }


\* no tool has been called
ToolsIdle ==
  /\ file = MissingFile
  /\ tool_done = {}
  /\ loader_out = NotCalled
  /\ inspector_out = NotCalled
  /\ profiler_out = NotCalled
  /\ validator_out = NotCalled


(* ------------------------------------------------------------------ *)
(* Construction                                                         *)
(* ------------------------------------------------------------------ *)
ControllerInit ==
  /\ \E c \in {<<InitMaxSteps, 1>>, <<CliMaxSteps, 2>>} :
        self_max_steps = c[1] /\ self_verbosity = c[2]
  /\ agent = CodeAgent(1, PromptTemplates(DefaultTemplates),
                       self_max_steps, self_verbosity)
  /\ nextId = 2
  /\ calls = 0
  /\ pc = "Idle"
  /\ max_retries = DefaultMaxRetries
  /\ retry_delay = DefaultRetryDelay
  /\ full_task = <<>>
  /\ attempt = 0
  /\ result = NoText
  /\ caught = NoText
  /\ is_overload = FALSE
  /\ wait_time = 0
  /\ ret = NoReturn
  /\ runLog = <<>>
  /\ waits = <<>>
  /\ rebuilds = 0
  /\ usedEarlier = {}

\* No truncate_text call in progress
MemoryIdle ==
  /\ tr_text = NoText
  /\ tr_max_chars = 0
  /\ tr_suffix = DefaultSuffix
  /\ tr_out = NoText
  /\ tr_pc = "idle"

\* A value of a Python attribute that may be None
None == [is_none |-> TRUE, text |-> NoText]
Str(t) == [is_none |-> FALSE, text |-> t]

\* bool(v) for v a str or None
Truthy(v) == ~v.is_none /\ Len(v.text) > 0

\* No compact_memory_callback call in progress
CallbackIdle ==
  /\ step = [has_observations |-> FALSE, observations |-> None,
              has_error |-> FALSE, error |-> None]
  /\ step0 = step
  /\ cb_kwargs = {}
  /\ cb_pc = "idle"

\* A command-line argument that may be absent
NoArg == [given |-> FALSE, value |-> ""]
Arg(v) == [given |-> TRUE, value |-> v]

\* The controller is used as a library: main() is not running
CliIdle ==
  /\ argv = [csv_path |-> NoArg, task |-> "", interactive |-> FALSE]
  /\ stdin = <<>>
  /\ cli_pc = "idle"
  /\ cli_calls = <<>>
  /\ entered = FALSE
  /\ consumed = 0
  /\ hints = 0

\* The attributes __init__ assigns, in the order it assigns them
Attributes == << "model", "max_steps", "verbosity_level", "tools", "agent",
                 "formatter" >>

\* __init__ has returned: the key is in the environment and every
\* attribute is assigned
Constructed ==
  /\ api_key = None
  /\ environ = Str(<<"k">>)
  /\ dotenv = None
  /\ ctor_pc = "constructed"
  /\ created = {Attributes[i] : i \in 1..Len(Attributes)}

Init ==
  ControllerInit /\ MemoryIdle /\ CallbackIdle /\ CliIdle /\ ToolsIdle
  /\ Constructed

(* ------------------------------------------------------------------ *)
(* analyze()                                                            *)
(* ------------------------------------------------------------------ *)
\* Variant of IsOverload that tests "overloaded" without lower-casing
IsOverloadCaseSensitive(e) ==
  \/ Contains(e, Sig503)
  \/ Contains(e, SigUnavailable)
  \/ Contains(e, SigOverloaded)

\* is_overload = "503" in error_str or "UNAVAILABLE" in error_str
\*               or "overloaded" in error_str.lower()
IsOverload(e) ==
  \/ Contains(e, Sig503)
  \/ Contains(e, SigUnavailable)
  \/ Contains(Lower(e), SigOverloaded)

\* Variant of ShouldRetry that retries whatever the error
ShouldRetryAnyError(overload, att, maxr) == att < maxr

\* if is_overload and attempt < max_retries
ShouldRetry(overload, att, maxr) == overload /\ att < maxr

\* Variant of WaitTime with a linear backoff
WaitTimeLinear(delay, att) == delay * (att + 1)

\* wait_time = retry_delay * (2 ** attempt)
WaitTime(delay, att) == delay * (2 ^ att)

\* error_msg = f"Analysis failed: {str(e)}"
FailureMessage(e) == AnalysisFailedPrefix \o e

\* analyze(csv_path, task, max_retries, retry_delay) up to the first run,
\* entered with the controller holding delegate held
AnalyzeEntry(csv_path, task, maxr, delay, held, nid) ==
  /\ pc = "Idle" \/ Terminal
  /\ calls < MaxCalls
  /\ calls' = calls + 1
  /\ max_retries' = maxr
  /\ retry_delay' = delay
  /\ attempt' = 0
  /\ result' = NoText
  /\ caught' = NoText
  /\ is_overload' = FALSE
  /\ wait_time' = 0
  /\ runLog' = <<>>
  /\ waits' = <<>>
  /\ rebuilds' = 0
  /\ usedEarlier' = usedEarlier \cup {runLog[i].id : i \in 1..Len(runLog)}
  /\ IF ~PathExists(csv_path)
       THEN /\ pc' = "NotFound"
            /\ ret' = [kind |-> "text", value |-> <<"File not found: ", csv_path>>]
            /\ full_task' = <<>>
            /\ UNCHANGED <<agent, nextId>>
       ELSE /\ full_task' = FullTask(csv_path, task)
            /\ agent' = held
            /\ nextId' = nid
            /\ IF maxr + 1 > 0
                 THEN pc' = "Attempting" /\ ret' = NoReturn
                 ELSE pc' = "NoValue" /\ ret' = [kind |-> "none", value |-> NoText]
  /\ UNCHANGED <<self_max_steps, self_verbosity>>
  /\ UNCHANGED nonCtlVars

\* Variant of CallAnalyze that constructs a delegate for every task
CallAnalyzeFresh(csv_path, task, maxr, delay) ==
  AnalyzeEntry(csv_path, task, maxr, delay,
               CodeAgent(nextId, PromptTemplates(agent.prompt_templates),
                         self_max_steps, self_verbosity),
               nextId + 1)

\* analyze() on the delegate the controller holds (self.agent)
CallAnalyze(csv_path, task, maxr, delay) ==
  AnalyzeEntry(csv_path, task, maxr, delay, agent, nextId)

\* except Exception as e: classify, then back off or fail
Except(e) ==
  LET error_str == e    \* error_str = str(e)
  IN  /\ caught' = e
      /\ is_overload' = IsOverload(error_str)
      /\ IF ShouldRetry(IsOverload(error_str), attempt, max_retries)
           THEN /\ wait_time' = WaitTime(retry_delay, attempt)
                /\ pc' = "BackingOff"
                /\ ret' = ret
           ELSE /\ wait_time' = wait_time
                /\ pc' = "Failed"
                /\ ret' = [kind |-> "text", value |-> FailureMessage(e)]

RunEntry(outcome) ==
  [ id |-> agent.id, config |-> Config(agent), task |-> full_task,
    attempt |-> attempt, outcome |-> outcome ]

\* result = self.agent.run(full_task) returns
RunReturns(r) ==
  /\ pc = "Attempting"
  /\ result' = r
  /\ runLog' = Append(runLog, RunEntry("returned"))
  /\ pc' = "Formatting"
  /\ UNCHANGED << self_max_steps, self_verbosity, agent, nextId, calls,
                  max_retries, retry_delay, full_task, attempt, caught,
                  is_overload, wait_time, ret, waits, rebuilds, usedEarlier >>
  /\ UNCHANGED nonCtlVars

\* self.agent.run(full_task) raises
RunRaises(e) ==
  /\ pc = "Attempting"
  /\ runLog' = Append(runLog,
                RunEntry(IF IsOverload(e) THEN "overload" ELSE "error"))
  /\ Except(e)
  /\ UNCHANGED << self_max_steps, self_verbosity, agent, nextId, calls,
                  max_retries, retry_delay, full_task, attempt, result,
                  waits, rebuilds, usedEarlier >>
  /\ UNCHANGED nonCtlVars

\* self.formatter.format_agent_result(result) returns; return result
FormatReturns ==
  /\ pc = "Formatting"
  /\ pc' = "Succeeded"
  /\ ret' = [kind |-> "text", value |-> result]
  /\ UNCHANGED << self_max_steps, self_verbosity, agent, nextId, calls,
                  max_retries, retry_delay, full_task, attempt, result,
                  caught, is_overload, wait_time, runLog, waits, rebuilds,
                  usedEarlier >>
  /\ UNCHANGED nonCtlVars

\* self.formatter.format_agent_result(result) raises inside the try block
FormatRaises(e) ==
  /\ pc = "Formatting"
  /\ Except(e)
  /\ UNCHANGED << self_max_steps, self_verbosity, agent, nextId, calls,
                  max_retries, retry_delay, full_task, attempt, result,
                  runLog, waits, rebuilds, usedEarlier >>
  /\ UNCHANGED nonCtlVars

\* time.sleep(wait_time) returns
SleepReturns ==
  /\ pc = "BackingOff"
  /\ wait_time >= 0
  /\ waits' = Append(waits, [secs |-> wait_time, attempt |-> attempt])
  /\ pc' = "Rebuilding"
  /\ UNCHANGED << self_max_steps, self_verbosity, agent, nextId, calls,
                  max_retries, retry_delay, full_task, attempt, result,
                  caught, is_overload, wait_time, ret, runLog, rebuilds,
                  usedEarlier >>
  /\ UNCHANGED nonCtlVars

\* time.sleep(wait_time) raises ValueError inside the except block
SleepRaises ==
  /\ pc = "BackingOff"
  /\ wait_time < 0
  /\ pc' = "Raised"
  /\ ret' = [kind |-> "exception", value |-> SleepError]
  /\ UNCHANGED << self_max_steps, self_verbosity, agent, nextId, calls,
                  max_retries, retry_delay, full_task, attempt, result,
                  caught, is_overload, wait_time, runLog, waits, rebuilds,
                  usedEarlier >>
  /\ UNCHANGED nonCtlVars

\* Variant of RebuildReturns that keeps the delegate of the failed attempt
RebuildReturnsSameDelegate ==
  /\ pc = "Rebuilding"
  /\ rebuilds' = rebuilds + 1
  /\ attempt' = attempt + 1
  /\ caught' = NoText
  /\ pc' = "Attempting"
  /\ UNCHANGED << self_max_steps, self_verbosity, agent, nextId, calls,
                  max_retries, retry_delay, full_task, result, is_overload,
                  wait_time, ret, runLog, waits, usedEarlier >>
  /\ UNCHANGED nonCtlVars

\* self.agent = CodeAgent(...) in the except block, then the next iteration
RebuildReturns ==
  /\ pc = "Rebuilding"
  /\ agent' = CodeAgent(nextId, PromptTemplates(agent.prompt_templates),
                        self_max_steps, self_verbosity)
  /\ nextId' = nextId + 1
  /\ rebuilds' = rebuilds + 1
  /\ attempt' = attempt + 1
  /\ caught' = NoText
  /\ pc' = "Attempting"
  /\ UNCHANGED << self_max_steps, self_verbosity, calls, max_retries,
                  retry_delay, full_task, result, is_overload, wait_time,
                  ret, runLog, waits, usedEarlier >>
  /\ UNCHANGED nonCtlVars

\* the CodeAgent constructor raises inside the except block
RebuildRaises(e) ==
  /\ pc = "Rebuilding"
  /\ pc' = "Raised"
  /\ ret' = [kind |-> "exception", value |-> e]
  /\ UNCHANGED << self_max_steps, self_verbosity, agent, nextId, calls,
                  max_retries, retry_delay, full_task, attempt, result,
                  caught, is_overload, wait_time, runLog, waits, rebuilds,
                  usedEarlier >>
  /\ UNCHANGED nonCtlVars

(* ------------------------------------------------------------------ *)
(* History compactor: truncate_text                                     *)
(* ------------------------------------------------------------------ *)
\* truncate_text(text, max_chars, suffix)
truncate_text(text, max_chars, suffix) ==
  IF Len(text) <= max_chars
    THEN text
    ELSE SliceTo(text, max_chars - Len(suffix)) \o suffix

\* Inputs of truncate_text
Alphabet == {"a", "b"}
Repeat(c, n) == [i \in 1..n |-> c]
LongLimit == Len(DefaultSuffix) + MaxLimit
ShortTexts == UNION { [1..k -> Alphabet] : k \in 0..MaxTextLen }
LongTexts == { Repeat("x", LongLimit + k) : k \in {0, 1, MaxTextLen} }
TruncTexts == ShortTexts \cup LongTexts
TruncLimits == (0..MaxLimit) \cup {LongLimit}
TruncSuffixes == { DefaultSuffix, <<>>, <<".">>, <<"[","c","u","t","]">> }

MemoryInputs ==
  /\ tr_text \in TruncTexts
  /\ tr_max_chars \in TruncLimits
  /\ tr_suffix \in TruncSuffixes
  /\ tr_out = NoText
  /\ tr_pc = "called"

\* one call of truncate_text on the chosen arguments
TruncateText ==
  /\ tr_pc = "called"
  /\ tr_out' = truncate_text(tr_text, tr_max_chars, tr_suffix)
  /\ tr_pc' = "returned"
  /\ UNCHANGED << tr_text, tr_max_chars, tr_suffix >>
  /\ UNCHANGED << ctlVars, cbVars, cliVars, toolVars, ctorVars >>

InitMemory ==
  ControllerInit /\ MemoryInputs /\ CallbackIdle /\ CliIdle /\ ToolsIdle
  /\ Constructed

NextMemory == TruncateText

SpecMemory == InitMemory /\ [][NextMemory]_vars

(* ------------------------------------------------------------------ *)
(* History compactor: compact_memory_callback                           *)
(* ------------------------------------------------------------------ *)
\* max_chars=1200 for a step with an error, max_chars=800 otherwise
ErrorLimit == 1200
NormalLimit == 800

\* Variant of CompactLimit that gives every step the normal limit
CompactLimitNoErrorBudget(s) == NormalLimit

\* Variant of CompactLimit that gives the larger limit to a step without
\* error
CompactLimitSwapped(s) ==
  IF s.has_error /\ Truthy(s.error) THEN NormalLimit ELSE ErrorLimit

\* the limit chosen by: if hasattr(step, 'error') and step.error
CompactLimit(s) ==
  IF s.has_error /\ Truthy(s.error) THEN ErrorLimit ELSE NormalLimit

\* the step after the body of compact_memory_callback(step)
Compacted(s) ==
  IF ~s.has_observations THEN s
  ELSE IF ~Truthy(s.observations) THEN s
  ELSE [s EXCEPT !.observations =
          Str(truncate_text(s.observations.text, CompactLimit(s), DefaultSuffix))]

\* Inputs of compact_memory_callback
ObsText(n) == [i \in 1..n |-> IF i % 2 = 1 THEN "a" ELSE "b"]
ObsLengths ==
  {0, 1, 2 * ErrorLimit}
    \cup { NormalLimit + d : d \in (-MaxDelta)..MaxDelta }
    \cup { ErrorLimit + d : d \in (-MaxDelta)..MaxDelta }
ErrorValues == { None, Str(NoText), Str(<<"b","o","o","m">>) }
Steps ==
  { [has_observations |-> TRUE, observations |-> Str(ObsText(n)),
     has_error |-> he, error |-> IF he THEN ev ELSE None] :
       n \in ObsLengths, he \in BOOLEAN, ev \in ErrorValues }
  \cup
  { [has_observations |-> ho, observations |-> None,
     has_error |-> he, error |-> IF he THEN ev ELSE None] :
       ho \in BOOLEAN, he \in BOOLEAN, ev \in ErrorValues }
KwargSets == { {}, {"agent"} }

CallbackInputs ==
  /\ step \in Steps
  /\ step0 = step
  /\ cb_kwargs \in KwargSets
  /\ cb_pc = "called"

\* compact_memory_callback(step) returns
CallbackReturns ==
  /\ cb_pc = "called"
  /\ cb_kwargs = {}
  /\ step' = Compacted(step)
  /\ cb_pc' = "returned"
  /\ UNCHANGED << step0, cb_kwargs >>
  /\ UNCHANGED << ctlVars, memVars, cliVars, toolVars, ctorVars >>

\* compact_memory_callback(step, agent=...) raises TypeError: the signature
\* def compact_memory_callback(step: Any) takes no keyword besides step
CallbackRejectsKwargs ==
  /\ cb_pc = "called"
  /\ cb_kwargs # {}
  /\ cb_pc' = "raised"
  /\ UNCHANGED << step, step0, cb_kwargs >>
  /\ UNCHANGED << ctlVars, memVars, cliVars, toolVars, ctorVars >>

\* compact_memory_callback(step) is called once more on the step it has
\* compacted, whose error the agent may have set or cleared meanwhile
CallbackAgain(error) ==
  /\ cb_pc \in {"returned", "reapplied"}
  /\ step' =
       Compacted([step EXCEPT !.error = IF step.has_error THEN error ELSE None])
  /\ cb_pc' = "reapplied"
  /\ UNCHANGED << step0, cb_kwargs >>
  /\ UNCHANGED << ctlVars, memVars, cliVars, toolVars, ctorVars >>

InitCompactor ==
  ControllerInit /\ MemoryIdle /\ CallbackInputs /\ CliIdle /\ ToolsIdle
  /\ Constructed

NextCompactor ==
  \/ CallbackReturns
  \/ CallbackRejectsKwargs
  \/ \E error \in ErrorValues : CallbackAgain(error)

SpecCompactor == InitCompactor /\ [][NextCompactor]_vars

(* ------------------------------------------------------------------ *)
(* Command line: main() and analyze_interactive()                       *)
(* ------------------------------------------------------------------ *)
\* Inputs of main()
CliPaths == { NoArg, Arg(""), Arg("data.csv"), Arg("missing.csv") }
CliTasks == { "Perform comprehensive exploratory data analysis", "Plot sales" }
\* what can arrive at a prompt instead of a line: an interrupt signal, the
\* end of the input
Interrupt == "^C"
EndOfInput == "^D"

InputLines ==
  { "quit", "exit", "q", "analyze data.csv", "analyze 'data.csv'",
    "analyze \"data.csv\"", "help", "", Interrupt, EndOfInput }

CliInputs ==
  /\ argv \in [csv_path : CliPaths, task : CliTasks, interactive : BOOLEAN]
  /\ stdin \in UNION { [1..n -> InputLines] : n \in 1..MaxLines }
  /\ cli_pc = "start"
  /\ cli_calls = <<>>
  /\ entered = FALSE
  /\ consumed = 0
  /\ hints = 0

\* Variant of GoesInteractive that looks at the flag only
GoesInteractiveFlagOnly(args) == args.interactive

\* if args.interactive or not args.csv_path
GoesInteractive(args) ==
  args.interactive \/ ~args.csv_path.given \/ args.csv_path.value = ""

\* main(): parse, construct the controller, dispatch
Main ==
  /\ cli_pc = "start"
  /\ IF GoesInteractive(argv)
       THEN /\ cli_pc' = "interactive"
            /\ entered' = TRUE
            /\ cli_calls' = cli_calls
       ELSE /\ cli_pc' = "analyzing"
            /\ entered' = entered
            /\ cli_calls' = Append(cli_calls,
                 [csv_path |-> argv.csv_path.value, task |-> argv.task])
  /\ UNCHANGED << argv, stdin, consumed, hints >>
  /\ UNCHANGED << ctlVars, memVars, cbVars, toolVars, ctorVars >>

\* agent.analyze(args.csv_path, args.task) returns; main() returns
CliAnalyzeReturns ==
  /\ cli_pc = "analyzing"
  /\ cli_pc' = "exited"
  /\ UNCHANGED << argv, stdin, cli_calls, entered, consumed, hints >>
  /\ UNCHANGED << ctlVars, memVars, cbVars, toolVars, ctorVars >>

\* agent.analyze(args.csv_path, args.task) raises; main() ends by it
CliAnalyzeRaises ==
  /\ cli_pc = "analyzing"
  /\ cli_pc' = "crashed"
  /\ UNCHANGED << argv, stdin, cli_calls, entered, consumed, hints >>
  /\ UNCHANGED << ctlVars, memVars, cbVars, toolVars, ctorVars >>

\* analyze_interactive(): building the banner evaluates Panel(...), a name
\* the module never imports: NameError, raised before the loop and outside
\* its try block, ends main()
InteractiveBanner ==
  /\ cli_pc = "interactive"
  /\ cli_pc' = "crashed"
  /\ UNCHANGED << argv, stdin, cli_calls, entered, consumed, hints >>
  /\ UNCHANGED << ctlVars, memVars, cbVars, toolVars, ctorVars >>

InitCli ==
  ControllerInit /\ MemoryIdle /\ CallbackIdle /\ CliInputs /\ ToolsIdle
  /\ Constructed

NextCli ==
  \/ Main
  \/ CliAnalyzeReturns
  \/ CliAnalyzeRaises
  \/ InteractiveBanner

SpecCli == InitCli /\ [][NextCli]_vars

(* ------------------------------------------------------------------ *)
(* Profiling tools: specification                                       *)
(* ------------------------------------------------------------------ *)
ToolsInputs ==
  /\ file \in Files
  /\ tool_done = {}
  /\ loader_out = NotCalled
  /\ inspector_out = NotCalled
  /\ profiler_out = NotCalled
  /\ validator_out = NotCalled

CallLoader ==
  /\ "loader" \notin tool_done
  /\ loader_out' \in LoaderForward(file)
  /\ tool_done' = tool_done \cup {"loader"}
  /\ UNCHANGED << file, inspector_out, profiler_out, validator_out >>
  /\ UNCHANGED << ctlVars, memVars, cbVars, cliVars, ctorVars >>

CallInspector ==
  /\ "inspector" \notin tool_done
  /\ inspector_out' \in InspectorForward(file)
  /\ tool_done' = tool_done \cup {"inspector"}
  /\ UNCHANGED << file, loader_out, profiler_out, validator_out >>
  /\ UNCHANGED << ctlVars, memVars, cbVars, cliVars, ctorVars >>

CallProfiler ==
  /\ "profiler" \notin tool_done
  /\ profiler_out' \in ProfilerForward(file)
  /\ tool_done' = tool_done \cup {"profiler"}
  /\ UNCHANGED << file, loader_out, inspector_out, validator_out >>
  /\ UNCHANGED << ctlVars, memVars, cbVars, cliVars, ctorVars >>

CallValidator ==
  /\ "validator" \notin tool_done
  /\ validator_out' \in ValidatorForward(file)
  /\ tool_done' = tool_done \cup {"validator"}
  /\ UNCHANGED << file, loader_out, inspector_out, profiler_out >>
  /\ UNCHANGED << ctlVars, memVars, cbVars, cliVars, ctorVars >>

InitTools ==
  ControllerInit /\ MemoryIdle /\ CallbackIdle /\ CliIdle /\ ToolsInputs
  /\ Constructed

NextTools == CallLoader \/ CallInspector \/ CallProfiler \/ CallValidator

SpecTools == InitTools /\ [][NextTools]_vars

(* ------------------------------------------------------------------ *)
(* DataAnalysisAgent.__init__                                           *)
(* ------------------------------------------------------------------ *)
\* The values api_key, the environment and the .env file are tried with
KeyValues == {None, Str(<<>>), Str(<<"k">>)}

\* Before __init__ has assigned it, self.agent is no delegate
NoAgent == CodeAgent(0, DefaultTemplates, 0, 0)

\* DataAnalysisAgent(api_key=...) has just been called: nothing is assigned
ConstructInputs ==
  /\ api_key \in KeyValues
  /\ environ \in KeyValues
  /\ dotenv \in KeyValues
  /\ ctor_pc = "start"
  /\ created = {}
  /\ self_max_steps = 0
  /\ self_verbosity = 0
  /\ agent = NoAgent
  /\ nextId = 1
  /\ calls = 0
  /\ pc = "Idle"
  /\ max_retries = DefaultMaxRetries
  /\ retry_delay = DefaultRetryDelay
  /\ full_task = <<>>
  /\ attempt = 0
  /\ result = NoText
  /\ caught = NoText
  /\ is_overload = FALSE
  /\ wait_time = 0
  /\ ret = NoReturn
  /\ runLog = <<>>
  /\ waits = <<>>
  /\ rebuilds = 0
  /\ usedEarlier = {}

ctorRest ==
  << calls, pc, max_retries, retry_delay, full_task, attempt, result,
     caught, is_overload, wait_time, ret, runLog, waits, rebuilds,
     usedEarlier, memVars, cbVars, cliVars, toolVars >>

\* load_dotenv(): a variable the environment already holds is kept, one
\* it lacks is taken from the .env file when the file gives it
LoadDotenv ==
  /\ ctor_pc = "start"
  /\ environ' = IF environ.is_none THEN dotenv ELSE environ
  /\ ctor_pc' = "loaded"
  /\ UNCHANGED << api_key, dotenv, created, self_max_steps, self_verbosity,
                  agent, nextId, ctorRest >>

\* Variant of EnvMissing that never finds the variable missing
EnvMissingNever(env) == FALSE

\* not os.getenv("GEMINI_API_KEY")
EnvMissing(env) == ~Truthy(env)

\* if api_key: os.environ[...] = api_key
\* elif not os.getenv(...): raise ValueError("GEMINI_API_KEY not found...")
KeyCheck ==
  /\ ctor_pc = "loaded"
  /\ IF Truthy(api_key)
       THEN environ' = api_key /\ ctor_pc' = "keyed"
       ELSE /\ environ' = environ
            /\ ctor_pc' = IF EnvMissing(environ) THEN "raised" ELSE "keyed"
  /\ UNCHANGED << api_key, dotenv, created, self_max_steps, self_verbosity,
                  agent, nextId, ctorRest >>

\* self.model = LiteLLMModel(model_id=model_name,
\*                           api_key=os.getenv("GEMINI_API_KEY"))
CreateModel ==
  /\ ctor_pc = "keyed"
  /\ created' = created \cup {"model"}
  /\ ctor_pc' = "model"
  /\ UNCHANGED << api_key, environ, dotenv, self_max_steps, self_verbosity,
                  agent, nextId, ctorRest >>

\* self.max_steps = max_steps; self.verbosity_level = verbosity_level
StoreSettings(max_steps, verbosity_level) ==
  /\ ctor_pc = "model"
  /\ self_max_steps' = max_steps
  /\ self_verbosity' = verbosity_level
  /\ created' = created \cup {"max_steps", "verbosity_level"}
  /\ ctor_pc' = "settings"
  /\ UNCHANGED << api_key, environ, dotenv, agent, nextId, ctorRest >>

\* self.tools = [PolarsDataLoaderTool(), DataInspectorTool(),
\*               DataProfilerTool(), DataValidatorTool()]
CreateTools ==
  /\ ctor_pc = "settings"
  /\ created' = created \cup {"tools"}
  /\ ctor_pc' = "tools"
  /\ UNCHANGED << api_key, environ, dotenv, self_max_steps, self_verbosity,
                  agent, nextId, ctorRest >>

\* temp_agent = CodeAgent(...) only lends its prompt templates; self.agent
\* is the delegate built with the customised system prompt, and
\* self.formatter = ResultFormatter() ends the construction
CreateAgent ==
  /\ ctor_pc = "tools"
  /\ agent' = CodeAgent(nextId, PromptTemplates(DefaultTemplates),
                        self_max_steps, self_verbosity)
  /\ nextId' = nextId + 1
  /\ created' = created \cup {"agent", "formatter"}
  /\ ctor_pc' = "constructed"
  /\ UNCHANGED << api_key, environ, dotenv, self_max_steps, self_verbosity,
                  ctorRest >>

InitConstruct ==
  ConstructInputs /\ MemoryIdle /\ CallbackIdle /\ CliIdle /\ ToolsIdle

NextConstruct ==
  \/ LoadDotenv
  \/ KeyCheck
  \/ CreateModel
  \/ \E c \in {<<InitMaxSteps, 1>>, <<CliMaxSteps, 2>>} :
       StoreSettings(c[1], c[2])
  \/ CreateTools
  \/ CreateAgent

SpecConstruct == InitConstruct /\ [][NextConstruct]_vars

(* ------------------------------------------------------------------ *)
(* The controller's specification                                       *)
(* ------------------------------------------------------------------ *)
Next ==
  \/ \E p \in Paths, t \in Tasks, m \in MaxRetriesValues, d \in RetryDelays :
       CallAnalyze(p, t, m, d)
  \/ \E r \in RunResults : RunReturns(r)
  \/ \E e \in RunErrors : RunRaises(e)
  \/ FormatReturns
  \/ \E e \in FormatErrors : FormatRaises(e)
  \/ SleepReturns
  \/ SleepRaises
  \/ RebuildReturns
  \/ \E e \in RebuildErrors : RebuildRaises(e)

Spec == Init /\ [][Next]_vars

\* the steps inside a call of analyze(): each delegate run, display, wait
\* and rebuild that has started eventually returns or raises
Progress ==
  \/ \E r \in RunResults : RunReturns(r)
  \/ \E e \in RunErrors : RunRaises(e)
  \/ FormatReturns
  \/ \E e \in FormatErrors : FormatRaises(e)
  \/ SleepReturns
  \/ SleepRaises
  \/ RebuildReturns
  \/ \E e \in RebuildErrors : RebuildRaises(e)

SpecLive == Init /\ [][Next]_vars /\ WF_vars(Progress)

(* ------------------------------------------------------------------ *)
(* Properties of the retry controller                                   *)
(* ------------------------------------------------------------------ *)
RunCount == Len(runLog)

\* the first k runs of the current call all raised a transient-overload error
FirstRunsOverloaded(k) ==
  /\ k <= RunCount
  /\ \A i \in 1..k : runLog[i].outcome = "overload"

\* C1: every run that is followed by another run of the same call is
\* followed first by one wait of retry_delay * 2^a seconds, a being its
\* 0-based attempt; every completed wait has that length; a run at attempt a
\* starts after exactly a waits; with max_retries = 3 and retry_delay = 4 the
\* waits are 4, 8, 16 in that order.
C1_BackoffWaits ==
  /\ \A i \in 1..Len(waits) :
       waits[i] = [secs |-> retry_delay * (2 ^ (i - 1)), attempt |-> i - 1]
  /\ \A i \in 1..RunCount : i < RunCount => Len(waits) >= i
  /\ pc = "Attempting" => Len(waits) = attempt
  /\ (max_retries = DefaultMaxRetries /\ retry_delay = DefaultRetryDelay) =>
       \A i \in 1..Len(waits) : waits[i].secs = <<4, 8, 16>>[i]

C1_Witness ==
  /\ max_retries = DefaultMaxRetries
  /\ retry_delay = DefaultRetryDelay
  /\ RunCount = 4
  /\ FirstRunsOverloaded(3)
  /\ Len(waits) = 3
  /\ waits[3].secs = 16

\* C2: when the runs of a call raise a transient-overload error k times in a
\* row and the next run returns (k <= max_retries), analyze() returns that
\* run's result and the run was invoked exactly k+1 times, after k waits.
C2_Claim ==
  Terminal =>
    \A k \in 0..max_retries :
      (/\ RunCount >= k + 1
       /\ FirstRunsOverloaded(k)
       /\ runLog[k + 1].outcome = "returned")
      => /\ pc = "Succeeded"
         /\ ret = [kind |-> "text", value |-> result]
         /\ RunCount = k + 1
         /\ Len(waits) = k

C4_Claim ==
  /\ (Terminal /\ RunCount >= 1 /\ FirstRunsOverloaded(RunCount)) =>
       /\ RunCount = max_retries + 1
       /\ Len(waits) = max_retries
       /\ pc = "Failed"
       /\ ret.kind = "text"
  /\ (RunCount >= 1 => RunCount <= max_retries + 1)

\* C5: analyze() never ends by an exception: whatever raises during the
\* call, the call ends by returning a text.
C5_Claim ==
  /\ pc # "Raised"
  /\ ret.kind # "exception"

\* C6: once a run has returned a result, no further run, wait or rebuild
\* happens in that call, and the call ends in Succeeded returning exactly
\* that result.
C6_Claim ==
  \A i \in 1..RunCount :
    runLog[i].outcome = "returned" =>
      /\ i = RunCount
      /\ pc \in {"Formatting", "Succeeded"}
      /\ Len(waits) = i - 1
      /\ rebuilds = i - 1
      /\ Terminal => ret = [kind |-> "text", value |-> result]

\* C7: within one call, every run after the first is on a delegate that no
\* earlier run used, constructed with the same configuration (tools, model,
\* system prompt, max-step budget, verbosity, authorized imports) and given
\* the identical full task text; one delegate is constructed per retry.
C7_FreshDelegatePerRetry ==
  /\ \A i, j \in 1..RunCount :
       i < j => /\ runLog[j].id # runLog[i].id
                /\ runLog[j].id \notin usedEarlier
                /\ runLog[j].config = runLog[i].config
                /\ runLog[j].task = runLog[i].task
  /\ \A i \in 1..RunCount :
       /\ runLog[i].config.prompt_templates.system_prompt = "AGENT_SYSTEM_PROMPT"
       /\ runLog[i].config.max_steps = self_max_steps
       /\ runLog[i].config.verbosity_level = self_verbosity
       /\ runLog[i].config.tools = "self.tools"
       /\ runLog[i].config.model = "self.model"
       /\ runLog[i].config.imports = "AUTHORIZED_IMPORTS"
  /\ (pc = "Attempting" /\ attempt >= 1) =>
       /\ rebuilds = attempt
       /\ \A i \in 1..RunCount : runLog[i].id # agent.id

C7_Witness ==
  /\ RunCount = 3
  /\ rebuilds = 2
  /\ runLog[1].id = 1 /\ runLog[2].id = 2 /\ runLog[3].id = 3

Max(S) == CHOOSE x \in S : \A y \in S : y <= x

\* C8 (as claimed): the delegate of a task's first attempt was not used by
\* any earlier task.
C8_Claim ==
  RunCount >= 1 => runLog[1].id \notin usedEarlier

\* C8 (amended): a task's first attempt runs on the delegate the controller
\* already holds: the one built at construction when no earlier task ran a
\* delegate, otherwise the delegate on which the latest earlier run was made.
C8_FirstAttemptOnHeldDelegate ==
  RunCount >= 1 =>
    runLog[1].id = IF usedEarlier = {} THEN 1 ELSE Max(usedEarlier)

C8_Witness ==
  /\ calls = 2
  /\ RunCount >= 1
  /\ usedEarlier = {1, 2}
  /\ runLog[1].id = 2

\* the letter-case variants of one character of a lower-case pattern
CaseVariants(c) ==
  {c} \cup { UpperLetters[k] : k \in { n \in 1..26 : LowerLetters[n] = c } }

\* pat (lower case) occurs in s in some mixture of letter cases
ContainsAnyCase(s, pat) ==
  \E i \in 1..(Len(s) - Len(pat) + 1) :
    \A j \in 1..Len(pat) : s[i + j - 1] \in CaseVariants(pat[j])

\* the handler has classified the caught error
Classified == pc \in {"BackingOff", "Rebuilding", "Failed"}

\* C9 (as claimed): an error is classified transient-overload exactly when
\* its text contains "503", "UNAVAILABLE" or "overloaded", and is retried
\* only then.
C9_Claim ==
  Classified =>
    LET match == \/ Contains(caught, Sig503)
                 \/ Contains(caught, SigUnavailable)
                 \/ Contains(caught, SigOverloaded)
    IN  /\ is_overload <=> match
        /\ pc \in {"BackingOff", "Rebuilding"} => match

\* C9 (amended): an error is classified transient-overload exactly when its
\* text contains "503", or "UNAVAILABLE", or "overloaded" in any mixture of
\* letter cases; an error matching none of these is never retried.
C9_Classification ==
  Classified =>
    LET match == \/ Contains(caught, Sig503)
                 \/ Contains(caught, SigUnavailable)
                 \/ ContainsAnyCase(caught, SigOverloaded)
    IN  /\ is_overload <=> match
        /\ pc \in {"BackingOff", "Rebuilding"} => match

C9_Witness ==
  /\ pc = "BackingOff"
  /\ caught = <<"O","v","e","r","l","o","a","d","e","d">>
  /\ is_overload

(* ------------------------------------------------------------------ *)
(* Properties of truncate_text                                          *)
(* ------------------------------------------------------------------ *)
\* C10: for every text of length L and every limit M, the output has length
\* exactly M and ends with the suffix when L > M, and is the input itself
\* when L <= M.
C10_Claim ==
  tr_pc = "returned" =>
    /\ Len(tr_text) > tr_max_chars =>
         (Len(tr_out) = tr_max_chars /\ EndsWith(tr_out, tr_suffix))
    /\ Len(tr_text) <= tr_max_chars => tr_out = tr_text

(* ------------------------------------------------------------------ *)
(* Properties of compact_memory_callback                                *)
(* ------------------------------------------------------------------ *)
\* the step carried an error when the callback was called
FlaggedWithError == step0.has_error /\ ~step0.error.is_none
                      /\ step0.error.text # NoText

\* the limit the contract gives the step
ContractLimit == IF FlaggedWithError THEN 1200 ELSE 800

\* C11: compact_memory_callback(step) never raises; afterwards the
\* observations of a step flagged with an error have at most 1200
\* characters, those of a step without error at most 800; when the original
\* was longer they have exactly the limit, keep the original prefix and end
\* with the truncation marker; at or under the limit, and for a missing or
\* empty observations attribute, the step is unchanged.
C11_CompactorContract ==
  (cb_kwargs = {} /\ cb_pc \in {"returned", "raised"}) =>
    /\ cb_pc = "returned"
    /\ step.has_error = step0.has_error /\ step.error = step0.error
    /\ step.has_observations = step0.has_observations
    /\ (~step0.has_observations \/ step0.observations.is_none) => step = step0
    /\ (step0.has_observations /\ ~step0.observations.is_none) =>
         LET old == step0.observations.text
             new == step.observations.text
         IN  /\ ~step.observations.is_none
             /\ Len(new) <= ContractLimit
             /\ Len(old) <= ContractLimit => new = old
             /\ Len(old) > ContractLimit =>
                  /\ Len(new) = ContractLimit
                  /\ EndsWith(new, DefaultSuffix)
                  /\ SubSeq(new, 1, ContractLimit - Len(DefaultSuffix))
                       = SubSeq(old, 1, ContractLimit - Len(DefaultSuffix))

C11_Witness ==
  /\ cb_pc = "returned"
  /\ FlaggedWithError
  /\ Len(step0.observations.text) = 1201
  /\ Len(step.observations.text) = 1200

\* C13: called with the keyword argument agent=..., the callback completes
\* without error and leaves an observation under the limit unchanged.
C13_Claim ==
  ("agent" \in cb_kwargs /\ cb_pc # "called") =>
    /\ cb_pc = "returned"
    /\ (step0.has_observations /\ ~step0.observations.is_none
          /\ Len(step0.observations.text) <= 800) => step = step0

\* C12: every delegate the controller runs, whether built at construction
\* or rebuilt on retry, has the compaction callback among its step
\* callbacks.
C12_Claim ==
  \A i \in 1..RunCount :
    "compact_memory_callback" \in runLog[i].config.step_callbacks

(* ------------------------------------------------------------------ *)
(* Properties of the command line                                       *)
(* ------------------------------------------------------------------ *)
\* a CSV path was given on the command line (an empty argument is none)
PathGiven == argv.csv_path.given /\ argv.csv_path.value # ""

\* C19: once main() has dispatched: with no CSV path it has entered
\* interactive mode and called analyze() never, with or without
\* --interactive; with a path and without --interactive it has not entered
\* interactive mode and has called analyze() exactly once, on that path with
\* that task, after which it only exits.
C19_CliDispatch ==
  cli_pc \notin {"idle", "start"} =>
    /\ ~PathGiven => (entered /\ cli_calls = <<>>)
    /\ (PathGiven /\ ~argv.interactive) =>
         /\ ~entered
         /\ cli_calls = << [csv_path |-> argv.csv_path.value,
                            task |-> argv.task] >>
         /\ cli_pc \in {"analyzing", "exited", "crashed"}

C19_Witness ==
  /\ cli_pc = "exited"
  /\ argv.csv_path = Arg("data.csv")
  /\ argv.task = "Plot sales"
  /\ ~argv.interactive
  /\ Len(cli_calls) = 1

\* what the session is to do with a line
QuitWords == {"quit", "exit", "q"}
AnalyzePathOf ==
  [ l \in {"analyze data.csv", "analyze 'data.csv'", "analyze \"data.csv\""}
      |-> "data.csv" ]
IsAnalyzeLine(l) == l \in DOMAIN AnalyzePathOf

\* the number of lines the session is to read: up to the first quit word
LinesToRead ==
  IF \E i \in 1..Len(stdin) : stdin[i] \in QuitWords
    THEN CHOOSE i \in 1..Len(stdin) :
           /\ stdin[i] \in QuitWords
           /\ \A j \in 1..(i - 1) : stdin[j] \notin QuitWords
    ELSE Len(stdin)

\* C20: an interactive session handles every input line up to the first
\* quit/exit/q: each `analyze <path>` line runs exactly one task on that
\* path, every other line runs none and gets a hint, and the session ends
\* only on the quit word.
C20_Claim ==
  (entered /\ cli_pc \in {"exited", "crashed"}) =>
    /\ consumed = LinesToRead
    /\ Len(cli_calls) =
         Cardinality({ i \in 1..LinesToRead : IsAnalyzeLine(stdin[i]) })
    /\ \A k \in 1..Len(cli_calls) : cli_calls[k].csv_path = "data.csv"
    /\ hints =
         Cardinality({ i \in 1..LinesToRead :
                         ~IsAnalyzeLine(stdin[i]) /\ stdin[i] \notin QuitWords })
    /\ cli_pc = "exited"
    /\ stdin[LinesToRead] \in QuitWords

(* ------------------------------------------------------------------ *)
(* Properties of the profiling tools                                    *)
(* ------------------------------------------------------------------ *)
ToolOut(t) ==
  CASE t = "loader" -> loader_out
    [] t = "inspector" -> inspector_out
    [] t = "profiler" -> profiler_out
    [] t = "validator" -> validator_out

\* neither the default parse nor any fallback combination reads the file
NothingParses(f) ==
  /\ \A o \in ReadCsv(f, "utf8", ",", FALSE) : o.raised
  /\ \A i \in 1..Len(Combinations) :
       \A o \in ReadCsv(f, Combinations[i].encoding,
                        Combinations[i].separator, TRUE) : o.raised

\* C14: every call of a tool ends by returning a text, never by an
\* exception; on a path that does not exist the text of each of the four
\* tools begins with the ERROR marker, and so does the Loader's text on a
\* file that no encoding/delimiter combination parses.
C14_ToolsReturnErrorText ==
  /\ \A t \in tool_done :
       /\ ~ToolOut(t).raised
       /\ ~file.exists => StartsWith(ToolOut(t).head, ErrorMarker)
  /\ ("loader" \in tool_done /\ NothingParses(file)) =>
       StartsWith(loader_out.head, ErrorMarker)

C14_Witness ==
  /\ tool_done = {"loader", "inspector", "profiler", "validator"}
  /\ ~file.exists
  /\ inspector_out.head = InspectorFailed

\* the file is a readable CSV: it exists, is valid UTF-8 and has a header
ReadableCsv(f) == f.exists /\ f.lines # <<>> /\ ~FileHasBytes(f)
\* the header names and the counts of the file, by the separator it was
\* written with
HeaderNames(f) == Split(f.lines[1], f.sep)
ActualRows(f) == Len(f.lines) - 1
ActualCols(f) == Len(HeaderNames(f))

\* C15: on a readable CSV with a header row (header-only and
\* semicolon-separated files included) the Loader reports the file's
\* actual row count and column count, and every header name is in the
\* report.
C15_Claim ==
  ("loader" \in tool_done /\ ReadableCsv(file)) =>
    /\ loader_out.head = LoaderHead
    /\ loader_out.body.n_rows = ActualRows(file)
    /\ loader_out.body.n_cols = ActualCols(file)
    /\ \A h \in 1..ActualCols(file) :
         \E c \in 1..Len(loader_out.body.columns) :
           loader_out.body.columns[c] = HeaderNames(file)[h]

\* the table the tools read from a readable comma-separated parse
TableOf(f) == ParseLines(f.lines, ",", FALSE)
\* the number of distinct values of a column, a null not being a value
DistinctValues(col) ==
  Cardinality({ col.values[r] : r \in 1..Len(col.values) } \ { NullCell })
\* the same number with null counted as one more value
DistinctWithNull(col) ==
  DistinctValues(col) + (IF NullCount(col) > 0 THEN 1 ELSE 0)

Labels == { "NUMERIC", "CATEGORICAL", "TEXT" }
ReportsWithLabels ==
  { t \in tool_done \cap {"inspector", "validator"} :
      ~StartsWith(ToolOut(t).head, ErrorMarker) }

\* the labelling rule for a counting of distinct values
LabelledBy(Count(_)) ==
  ReadableCsv(file) =>
    \A t \in ReportsWithLabels :
      LET lines == ToolOut(t).body.columns
          table == TableOf(file)
      IN /\ Len(lines) = Len(table)
         /\ \A c \in 1..Len(lines) :
              /\ lines[c].col_type \in Labels
              /\ lines[c].col_type = "NUMERIC"
                   <=> table[c].dtype \in { Int64, Float64 }
              /\ table[c].dtype \notin { Int64, Float64 } =>
                   (lines[c].col_type = "CATEGORICAL"
                      <=> Count(table[c]) < 20)

\* C16 (as stated): in the Inspector and Validator reports a column is
\* NUMERIC iff its inferred type is integer or floating point; a
\* non-numeric column is CATEGORICAL iff its number of distinct values is
\* below 20, and TEXT otherwise; every column has exactly one label.
C16_Claim == LabelledBy(DistinctValues)

\* C16 (amended): the same rule with the distinct-value count taken as the
\* reports print it: a null counts as one more distinct value.
C16_LabelsCountNull == LabelledBy(DistinctWithNull)

C16_Witness ==
  /\ "inspector" \in tool_done
  /\ "validator" \in tool_done
  /\ ReadableCsv(file)
  /\ \E c \in 1..Len(inspector_out.body.columns) :
       /\ inspector_out.body.columns[c].col_type = "TEXT"
       /\ validator_out.body.columns[c].col_type = "TEXT"
       /\ DistinctValues(TableOf(file)[c]) = 19
       /\ NullCount(TableOf(file)[c]) > 0

\* the numeric columns of the file's table
NumericColumns(f) ==
  LET isNumeric(col) == col.dtype \in { Int64, Float64 }
  IN SelectSeq(TableOf(f), isNumeric)

\* the non-null numbers of a column
NonNull(col) ==
  LET present(c) == ~c.null IN Nums(SelectSeq(col.values, present))

\* the number of non-null values outside [Q1 - 1.5 IQR, Q3 + 1.5 IQR]
Outside(col) ==
  LET v == NonNull(col)
      Q1 == Quantile(v, 1)
      Q3 == Quantile(v, 3)
      IQR == Q3 - Q1
  IN Cardinality({ i \in 1..Len(v) :
                     2 * v[i] < 2 * Q1 - 3 * IQR \/ 2 * v[i] > 2 * Q3 + 3 * IQR })

ProfilerReported ==
  /\ "profiler" \in tool_done
  /\ ReadableCsv(file)
  /\ profiler_out.head = ProfilerHead

\* C17: the Profiler reports an outlier count for each of the first five
\* numeric columns and for no other; the count is the number of non-null
\* values v with v < Q1 - 1.5 IQR or v > Q3 + 1.5 IQR, the quartiles being
\* those of the non-null values; a value inside the closed interval is not
\* counted.
C17_OutlierCounts ==
  ProfilerReported =>
    LET numeric == NumericColumns(file)
        reported == profiler_out.body.outliers
    IN /\ Len(reported) = (IF Len(numeric) < 5 THEN Len(numeric) ELSE 5)
       /\ \A c \in 1..Len(reported) :
            /\ reported[c].name = numeric[c].name
            /\ reported[c].outliers = Outside(numeric[c])

C17_Witness ==
  /\ ProfilerReported
  /\ \E c \in 1..Len(profiler_out.body.outliers) :
       /\ profiler_out.body.outliers[c].outliers > 0
       /\ NullCount(NumericColumns(file)[c]) > 0
       /\ \E r \in 1..Len(NumericColumns(file)[c].values) :
            LET v == NumericColumns(file)[c].values[r]
            IN ~v.null /\ v.num = 7

\* the index pairs of the numeric columns the Profiler examines
ExaminedPairs(n) ==
  { p \in (1..n) \X (1..n) : p[1] < p[2] /\ p[1] <= 5 /\ p[2] <= 6 }

\* C18: a pair of numeric columns among those the Profiler examines is
\* listed in the correlation report iff the absolute value of its Pearson
\* correlation exceeds 0.5, no other pair is listed, and the listed pairs
\* are in order of non-increasing absolute correlation.
C18_Correlations ==
  ProfilerReported =>
    LET numeric == NumericColumns(file)
        listed == profiler_out.body.correlations
        IsListed(p) ==
          \E k \in 1..Len(listed) :
            /\ listed[k].col1 = numeric[p[1]].name
            /\ listed[k].col2 = numeric[p[2]].name
    IN /\ \A p \in ExaminedPairs(Len(numeric)) :
            IsListed(p) <=> Strong(Corr(numeric[p[1]], numeric[p[2]]))
       /\ \A k \in 1..Len(listed) :
            \E p \in ExaminedPairs(Len(numeric)) :
              listed[k] = Corr(numeric[p[1]], numeric[p[2]])
       /\ \A k \in 1..(Len(listed) - 1) : ~AbsGreater(listed[k + 1], listed[k])

C18_Witness ==
  /\ ProfilerReported
  /\ Len(NumericColumns(file)) > 6
  /\ Len(profiler_out.body.correlations) >= 3
  /\ \E k \in 1..Len(profiler_out.body.correlations) :
       profiler_out.body.correlations[k].cov < 0
  /\ \E k \in 1..Len(profiler_out.body.correlations) :
       profiler_out.body.correlations[k].cov > 0
  /\ Len(profiler_out.body.correlations)
       < Cardinality(ExaminedPairs(Len(NumericColumns(file))))

C24_Claim == (pc = "Attempting") ~> (pc \in {"Succeeded", "Failed"})

\* C26: for every integer max_retries, a finished call of analyze() on an
\* existing file has run the delegate at least once and has returned a
\* text, the run's result or a failure text.
C26_Claim ==
  (Terminal /\ pc # "NotFound") =>
    /\ RunCount >= 1
    /\ ret.kind = "text"
    /\ \/ pc = "Succeeded" /\ ret.value = result
       \/ pc = "Failed"
            /\ SubSeq(ret.value, 1, Len(AnalysisFailedPrefix))
                 = AnalysisFailedPrefix

\* C27: within one call no wait precedes the first run, a run at attempt a
\* starts after exactly a waits, and when the call has ended the number of
\* waits is the number of runs minus one: no wait follows the last run.
C27_Claim ==
  /\ RunCount = 0 => waits = <<>>
  /\ pc = "Attempting" => Len(waits) = RunCount
  /\ (Terminal /\ RunCount >= 1) => Len(waits) = RunCount - 1

(* ------------------------------------------------------------------ *)
(* Construction and the credential                                      *)
(* ------------------------------------------------------------------ *)
\* __init__ has got past the credential check
Keyed == ctor_pc \in {"keyed", "model", "settings", "tools", "constructed"}

\* Once the .env file is loaded, a construction with neither an api_key nor
\* the variable raises at the check, with nothing assigned
FailsBeforeCreating ==
  /\ [](ctor_pc = "raised" =>
          /\ created = {} /\ agent = NoAgent /\ nextId = 1
          /\ ~Truthy(api_key) /\ ~Truthy(environ))
  /\ []((Keyed /\ api_key.is_none) => ~environ.is_none)
  /\ [][(ctor_pc = "loaded" /\ api_key.is_none /\ environ.is_none)
           => ctor_pc' = "raised"]_vars

\* C22 as stated: without an api_key and with the credential variable unset
\* once the settings file is loaded, construction fails before any model
\* handle, tool or delegate is created; with any api_key passed, construction
\* does not fail for lack of the variable
C22_AnyKeyPassed ==
  /\ FailsBeforeCreating
  /\ [](~api_key.is_none => ctor_pc # "raised")

\* C22 amended: without an api_key and with the credential variable unset
\* once the settings file is loaded, construction fails before any model
\* handle, tool or delegate is created; with a non-empty api_key passed,
\* construction does not fail, the key is put in the environment and the
\* model handle is created from a non-empty key
C22_NonEmptyKeyPassed ==
  /\ FailsBeforeCreating
  /\ [](Truthy(api_key) => ctor_pc # "raised")
  /\ []((Keyed /\ Truthy(api_key)) => environ = api_key)
  /\ [](Keyed => Truthy(environ))
  /\ [](ctor_pc = "constructed" =>
          /\ created = {Attributes[i] : i \in 1..Len(Attributes)}
          /\ agent.id = 1 /\ nextId = 2)

C22_Witness ==
  /\ ctor_pc = "raised"
  /\ api_key.is_none /\ environ.is_none /\ dotenv.is_none
  /\ created = {}

(* ------------------------------------------------------------------ *)
(* The Loader's fallback                                                *)
(* ------------------------------------------------------------------ *)
\* the twelve fallback reads in the order they are to be tried
FallbackOrder ==
  << << "utf-8", "," >>, << "utf-8", ";" >>, << "utf-8", "\t" >>,
     << "utf-8", "|" >>,
     << "latin-1", "," >>, << "latin-1", ";" >>, << "latin-1", "\t" >>,
     << "latin-1", "|" >>,
     << "iso-8859-1", "," >>, << "iso-8859-1", ";" >>,
     << "iso-8859-1", "\t" >>, << "iso-8859-1", "|" >> >>

FallbackRead(f, j) ==
  ReadCsv(f, FallbackOrder[j][1], FallbackOrder[j][2], TRUE)

DefaultRead(f) == ReadCsv(f, "utf8", ",", FALSE)

\* the report gives the shape and the columns of frame df
ReportsFrame(out, df) ==
  /\ out.body.n_rows = Shape(df).n_rows
  /\ out.body.n_cols = Shape(df).n_cols
  /\ out.body.columns = [c \in 1..Len(df) |-> df[c].name]

\* C25: on an existing file the Loader reports the default parse when it
\* succeeds and tries nothing else; when it fails the Loader tries the
\* twelve combinations, encodings (utf-8, latin-1, iso-8859-1) outer by
\* separators (comma, semicolon, tab, pipe) inner, reports the first one
\* that parses after every earlier one has failed, and returns the
\* "Could not load" ERROR text exactly when the default parse and all
\* twelve combinations fail
C25_FallbackOrder ==
  ("loader" \in tool_done /\ file.exists) =>
    /\ ~loader_out.raised
    /\ loader_out.head \in {LoaderHead, LoaderCouldNotLoad}
    /\ (\A o \in DefaultRead(file) : ~o.raised) =>
         /\ loader_out.head = LoaderHead
         /\ loader_out.body.tried = 0
    /\ loader_out.head = LoaderHead =>
         /\ loader_out.body.tried \in 0..Len(FallbackOrder)
         /\ loader_out.body.tried = 0 =>
              \E o \in DefaultRead(file) :
                ~o.raised /\ ReportsFrame(loader_out, o.df)
         /\ loader_out.body.tried > 0 =>
              /\ \E o \in DefaultRead(file) : o.raised
              /\ \A j \in 1..(loader_out.body.tried - 1) :
                   \E o \in FallbackRead(file, j) : o.raised
              /\ \E o \in FallbackRead(file, loader_out.body.tried) :
                   ~o.raised /\ ReportsFrame(loader_out, o.df)
    /\ loader_out.head = LoaderCouldNotLoad <=>
         /\ \A o \in DefaultRead(file) : o.raised
         /\ \A j \in 1..Len(FallbackOrder) :
              \A o \in FallbackRead(file, j) : o.raised

\* the default parse and the four utf-8 reads failed, latin-1 with a comma
\* parsed
C25_Witness ==
  /\ "loader" \in tool_done
  /\ file = Latin1File
  /\ loader_out.head = LoaderHead
  /\ loader_out.body.tried = 5

Flagged(s) == s.has_error /\ Truthy(s.error)

\* C28 as stated: applying compact_memory_callback again to a compacted
\* step, whatever the step's error is at that application, leaves the
\* observations as the application before left them
C28_Claim ==
  [][cb_pc' = "reapplied" => step'.observations = step.observations]_vars

\* C28 amended: applying compact_memory_callback again leaves the
\* observations as they were whenever the step's error is as it was at the
\* application before, or has been set since; an application never
\* lengthens the observations and changes nothing else of the step but the
\* error the agent has set
C28_IdempotentUnlessErrorCleared ==
  [][cb_pc' = "reapplied" =>
       /\ (Flagged(step') \/ ~Flagged(step)) =>
            step'.observations = step.observations
       /\ step'.has_observations = step.has_observations
       /\ step'.has_error = step.has_error
       /\ step'.observations.is_none = step.observations.is_none
       /\ Len(step'.observations.text) <= Len(step.observations.text)]_vars

\* a long observation compacted under the error limit and again
C28_Witness ==
  /\ cb_pc = "reapplied"
  /\ Flagged(step0) /\ Flagged(step)
  /\ Len(step0.observations.text) = 2 * ErrorLimit
  /\ Len(step.observations.text) = ErrorLimit

(* ------------------------------------------------------------------ *)
(* Interrupts and errors in an interactive session                      *)
(* ------------------------------------------------------------------ *)
\* prompt i is one the session is to reach: no quit word comes before it
Reached(i) == \A j \in 1..(i - 1) : stdin[j] \notin QuitWords

\* C21: an interrupt signal never ends an interactive session: a session
\* that has ended has met every interrupt due before its quit word at a
\* prompt, and has prompted again after it
C21_Claim ==
  (entered /\ cli_pc \in {"exited", "crashed"}) =>
    \A i \in 1..Len(stdin) :
      (stdin[i] = Interrupt /\ Reached(i)) =>
        /\ consumed >= i
        /\ i < Len(stdin) => consumed > i

\* C29: an interactive session ends only by a quit/exit/q line read at
\* its prompt: whatever is raised while a line is read, the end of the
\* input included, or while analyze() runs is followed by another prompt
C29_Claim ==
  (entered /\ cli_pc \in {"exited", "crashed"}) =>
    /\ cli_pc = "exited"
    /\ consumed >= 1
    /\ stdin[consumed] \in QuitWords

====
